---- MODULE Spec2Model ----
(***************************************************************************)
(* A model of the two webhook relay servers of the repository:             *)
(*   bybit_a101_ethusdt.py  the drawdown-gated /webhook, /manual_reset and *)
(*                          /status handlers over max_equity and           *)
(*                          strategy_status;                               *)
(*   bybit_a203_ethusdt.py  the /tv_webhook and /tv_webhook_test handlers  *)
(*                          and the orders they send.                      *)
(* Python floats are IEEE 754 binary64 values; they are modelled by a      *)
(* mantissa of bits and a binary exponent, every operation rounding to 53  *)
(* bits, to nearest, ties to even, as the interpreter does.                *)
(***************************************************************************)
EXTENDS Integers, Sequences, FiniteSets, Bags, TLC

(***************************************************************************)
(* Bit strings, most significant bit first.  The operations are written    *)
(* position by position, so that none recurses over the length of a        *)
(* mantissa.                                                               *)
(***************************************************************************)
Max(a, b) == IF a > b THEN a ELSE b

\* the tuple of the values f[1] .. f[n]
Tuple(f, n) == SubSeq(f, 1, n)

Zeros(n) == Tuple([i \in 1..n |-> 0], n)

\* the number of bits of a small natural number n
BitLen(n) == CHOOSE k \in 0..30 : n < 2^k /\ (k = 0 \/ n >= 2^(k - 1))

\* the bits of a small natural number n
Bits(n) ==
  LET L == BitLen(n)
  IN  Tuple([i \in 1..L |-> (n \div 2^(L - i)) % 2], L)

\* the number a string of at most 30 bits stands for
RECURSIVE BitsFrom(_, _)
BitsFrom(b, i) ==
  IF i > Len(b) THEN 0 ELSE b[i] * 2^(Len(b) - i) + BitsFrom(b, i + 1)

BitsToInt(b) == BitsFrom(b, 1)

AnyOne(b) == \E i \in 1..Len(b) : b[i] = 1

StripLead(b) ==
  IF ~AnyOne(b) THEN <<>>
  ELSE LET f == CHOOSE i \in 1..Len(b) : b[i] = 1 /\ \A j \in 1..(i - 1) : b[j] = 0
       IN  SubSeq(b, f, Len(b))

TrailZeros(b) ==
  IF ~AnyOne(b) THEN Len(b)
  ELSE LET l == CHOOSE i \in 1..Len(b) : b[i] = 1 /\ \A j \in (i + 1)..Len(b) : b[j] = 0
       IN  Len(b) - l

PadLeft(b, n) == IF Len(b) >= n THEN b ELSE Zeros(n - Len(b)) \o b

\* a + b: the carry into position i comes from the nearest position below it
\* that does not propagate one
AddBits(a, b) ==
  LET n  == Max(Len(a), Len(b))
      x  == PadLeft(a, n)
      y  == PadLeft(b, n)
      below(i) == {j \in (i + 1)..n : x[j] + y[j] # 1}
      carry(i) ==
        IF below(i) = {} THEN 0
        ELSE LET j == CHOOSE k \in below(i) : \A l \in below(i) : k <= l
             IN  IF x[j] + y[j] = 2 THEN 1 ELSE 0
      top == IF n = 0 THEN 0 ELSE carry(0)
      sum == Tuple([i \in 1..n |-> (x[i] + y[i] + carry(i)) % 2], n)
  IN  IF top = 1 THEN <<1>> \o sum ELSE sum

\* a - b for a >= b: the borrow into position i comes from the nearest
\* position below it where the two differ
SubBits(a, b) ==
  LET n  == Max(Len(a), Len(b))
      x  == PadLeft(a, n)
      y  == PadLeft(b, n)
      below(i) == {j \in (i + 1)..n : x[j] # y[j]}
      borrow(i) ==
        IF below(i) = {} THEN 0
        ELSE LET j == CHOOSE k \in below(i) : \A l \in below(i) : k <= l
             IN  IF x[j] < y[j] THEN 1 ELSE 0
  IN  Tuple([i \in 1..n |-> (x[i] - y[i] - borrow(i) + 2) % 2], n)

\* a <= b as natural numbers
LeqBits(a, b) ==
  LET n  == Max(Len(a), Len(b))
      x  == PadLeft(a, n)
      y  == PadLeft(b, n)
      diff == {j \in 1..n : x[j] # y[j]}
  IN  \/ diff = {}
      \/ LET j == CHOOSE k \in diff : \A l \in diff : k <= l IN x[j] < y[j]

\* a * b, b the shorter one: the sum of a shifted to every one of b
RECURSIVE MulFrom(_, _, _)
MulFrom(a, b, i) ==
  IF i > Len(b) THEN <<>>
  ELSE LET rest == MulFrom(a, b, i + 1)
       IN  IF b[i] = 1 THEN AddBits(rest, a \o Zeros(Len(b) - i)) ELSE rest

MulBits(a, b) == IF Len(b) <= Len(a) THEN MulFrom(a, b, 1) ELSE MulFrom(b, a, 1)

ChunkBits == 10

\* the long division of the bit string b by the small integer p, ten bits at
\* a time: q the quotient bits, r the remainder
RECURSIVE DivRem(_, _, _)
DivRem(c, p, i) ==
  IF i = 0 THEN 0 ELSE (DivRem(c, p, i - 1) * 2^ChunkBits + c[i]) % p

LongDiv(b, p) ==
  LET k  == (Len(b) + ChunkBits - 1) \div ChunkBits
      x  == PadLeft(b, k * ChunkBits)
      c  == Tuple([i \in 1..k |->
                    BitsToInt(SubSeq(x, (i - 1) * ChunkBits + 1, i * ChunkBits))], k)
      qc == Tuple([i \in 1..k |->
                    (DivRem(c, p, i - 1) * 2^ChunkBits + c[i]) \div p], k)
      q  == Tuple([i \in 1..(k * ChunkBits) |->
                    (qc[(i - 1) \div ChunkBits + 1]
                       \div 2^(ChunkBits - 1 - ((i - 1) % ChunkBits))) % 2],
                  k * ChunkBits)
  IN  [q |-> q, r |-> DivRem(c, p, k)]

\* b + 1
Inc(b) == AddBits(b, <<1>>)

(***************************************************************************)
(* binary64 values: (-1)^neg * m * 2^e, m an odd number of at most 53 bits *)
(* (the empty string for zero).                                            *)
(***************************************************************************)
Precision == 53

FZero == [neg |-> FALSE, m |-> <<>>, e |-> 0]

\* the value neg, bits * 2^e in canonical form, bits of at most 53 bits
Norm(neg, bits, e) ==
  LET b == StripLead(bits)
      z == TrailZeros(b)
  IN  IF b = <<>> THEN FZero
      ELSE [neg |-> neg, m |-> SubSeq(b, 1, Len(b) - z), e |-> e + z]

\* round bits * 2^e (plus something below the last bit when sticky) to 53
\* bits: to nearest, ties to even
RoundF(neg, bits, e, sticky) ==
  LET b == StripLead(bits)
  IN  IF Len(b) <= Precision THEN Norm(neg, b, e)
      ELSE LET keep  == SubSeq(b, 1, Precision)
               guard == b[Precision + 1]
               rest  == sticky \/ AnyOne(SubSeq(b, Precision + 2, Len(b)))
               up    == guard = 1 /\ (rest \/ keep[Precision] = 1)
           IN  Norm(neg, IF up THEN Inc(keep) ELSE keep, e + Len(b) - Precision)

\* float(n) of a small integer n
FromInt(n) == IF n < 0 THEN Norm(TRUE, Bits(-n), 0) ELSE Norm(FALSE, Bits(n), 0)

FNeg(x) == IF x.m = <<>> THEN x ELSE [x EXCEPT !.neg = ~x.neg]

\* x + y
FAdd(x, y) ==
  LET e  == IF x.e < y.e THEN x.e ELSE y.e
      a  == x.m \o Zeros(x.e - e)
      b  == y.m \o Zeros(y.e - e)
  IN  IF x.neg = y.neg THEN RoundF(x.neg, AddBits(a, b), e, FALSE)
      ELSE IF LeqBits(b, a) THEN RoundF(x.neg, SubBits(a, b), e, FALSE)
      ELSE RoundF(y.neg, SubBits(b, a), e, FALSE)

\* x - y
FSub(x, y) == FAdd(x, FNeg(y))

\* x * y
FMul(x, y) == RoundF(x.neg # y.neg, MulBits(x.m, y.m), x.e + y.e, FALSE)

DivExtra == 70

\* x / y, for a divisor whose mantissa is a small number (y # 0)
FDiv(x, y) ==
  LET d == LongDiv(x.m \o Zeros(DivExtra), BitsToInt(y.m))
  IN  IF x.m = <<>> THEN FZero
      ELSE RoundF(x.neg # y.neg, d.q, x.e - y.e - DivExtra, d.r # 0)

\* x < y
FLess(x, y) ==
  LET d == FSub(x, y) IN d.m # <<>> /\ d.neg

\* x <= y
FLeq(x, y) == ~FLess(y, x)

\* a faulty round(x, 2): the digits after the second place are cut off
Trunc2(x) ==
  LET k    == IF x.e < 0 THEN -x.e ELSE 0
      bits == PadLeft(MulBits(x.m, Bits(100)) \o Zeros(IF x.e > 0 THEN x.e ELSE 0), k + 1)
      h    == BitsToInt(SubSeq(bits, 1, Len(bits) - k))
  IN  IF x.neg THEN -h ELSE h

\* round(x, 2) in hundredths: the decimal of two places nearest to the exact
\* value of x, ties to even
Round2(x) ==
  LET k    == IF x.e < 0 THEN -x.e ELSE 0
      bits == PadLeft(MulBits(x.m, Bits(100)) \o Zeros(IF x.e > 0 THEN x.e ELSE 0), k + 1)
      n    == Len(bits)
      I    == BitsToInt(SubSeq(bits, 1, n - k))
      F    == SubSeq(bits, n - k + 1, n)
      up   == k > 0 /\ F[1] = 1 /\ (AnyOne(Tail(F)) \/ I % 2 = 1)
      h    == IF up THEN I + 1 ELSE I
  IN  IF x.neg THEN -h ELSE h

(***************************************************************************)
(* The inputs of the model.  The numbers a request carries are floats with *)
(* whole values (equity, price, capital_percent); quantities are counted   *)
(* in thousandths of a contract.                                           *)
(***************************************************************************)
MaxInflight == 1

SIDs == {"S1", "S2"}

Equities == {-10, 89, 90, 100}

Sizes == {-1000, 0, 5, 1000}

\* Python's None: "None" where a string is expected, the empty tuple where a
\* number or an object is (<<v>> is then the value v)
None == "None"

Nil == <<>>

Some(v) == <<v>>

GoodSecret == "abc123xyz"

Secrets == {GoodSecret, "wrong"}

\* what the exchange (or LINE) does with a request sent to it
Accepted == "accepted"

Rejected == "rejected"

HttpError == "http_error"

TransportError == "transport_error"

ExchangeOutcomes == {Accepted, Rejected, HttpError, TransportError}

\* the retCode of the JSON body the exchange answers with
RetCodeOf(outcome) ==
  CASE outcome = Accepted -> Some(0)
    [] outcome = Rejected -> Some(10001)
    [] outcome = HttpError -> Some(10003)
    [] OTHER -> Nil

(***************************************************************************)
(* bybit_a101_ethusdt.py                                                   *)
(***************************************************************************)
MAX_DRAWDOWN_PERCENT == 10

WEBHOOK_SECRET == GoodSecret

VARIABLES
  program,          \* which of the two servers the run is of
  max_equity,       \* a101: the dict strategy id -> peak equity
  strategy_status,  \* a101: the dict strategy id -> [paused |-> ...]
  inflight,         \* the bag of the handlers suspended in an await
  placed,           \* a203: the order ids place_order has been called for
  reported,         \* a101: strategy id -> the highest equity reported so far
  last              \* the step last taken: what it read and what it emitted

vars == <<program, max_equity, strategy_status, inflight, placed, reported, last>>

\* a faulty max_equity.get: a strategy without a peak is given one of 100
MaxEquityGetSeeded(me, sid) == IF sid \in DOMAIN me THEN me[sid] ELSE 100

\* max_equity.get(sid, 0)
MaxEquityGet(me, sid) == IF sid \in DOMAIN me THEN me[sid] ELSE 0

\* a faulty reading of the paused flag: it is never seen
PausedIgnored(st, sid) == FALSE

\* strategy_status.get(sid, {}).get("paused", False)
PausedGet(st, sid) == IF sid \in DOMAIN st THEN st[sid].paused ELSE FALSE

\* a faulty d[key] = value: the dict is replaced by one of that key alone
DictSetOnly(d, key, value) == [k \in {key} |-> value]

\* d[key] = value
DictSet(d, key, value) ==
  [k \in DOMAIN d \cup {key} |-> IF k = key THEN value ELSE d[k]]

\* dd = (1 - eq / max_eq) * 100 if max_eq > 0 else 0
Drawdown(eq, max_eq) ==
  IF max_eq > 0
  THEN FMul(FSub(FromInt(1), FDiv(FromInt(eq), FromInt(max_eq))), FromInt(100))
  ELSE FZero

\* a faulty dd >= MAX_DRAWDOWN_PERCENT: dd is compared with 0
BreachAny(dd) == FLeq(FZero, dd)

\* dd >= MAX_DRAWDOWN_PERCENT
Breach(dd) == FLeq(FromInt(MAX_DRAWDOWN_PERCENT), dd)

\* the drawdowns of the equities of the model against the peaks there can be
\* (0 when there is none), computed once: whether dd
\* reaches the threshold, and round(dd, 2) in hundredths
DrawdownTable ==
  [x \in Equities \X (Equities \cup {0}) |->
     LET dd == Drawdown(x[1], x[2])
     IN  [breach |-> Breach(dd), rounded |-> Round2(dd)]] @@ <<>>

NoOrder == [symbol |-> None, side |-> None, qty |-> 0, sid |-> None, paused |-> FALSE]

Resp(status, reason, drawdown, retCode) ==
  [status |-> status, reason |-> reason, drawdown |-> drawdown, retCode |-> retCode]

\* no response yet: the handler is suspended
NoResp == Resp("pending", "", Nil, Nil)

LogRecord(sid, event, equity, drawdown, order_action, ret_code, ret_msg, qty) ==
  [strategy_id |-> sid, event |-> event, equity |-> equity, drawdown |-> drawdown,
   order_action |-> order_action, ret_code |-> ret_code, ret_msg |-> ret_msg,
   qty |-> qty]

NoLog == LogRecord(None, None, Nil, Nil, None, Nil, None, Nil)

\* log_event(strategy_id, event, equity, drawdown, order_action)
log_event(sid, event, equity, drawdown, order_action) ==
  LogRecord(sid, event, equity, drawdown, order_action, Nil, None, Nil)

\* the data of an entry: every size to buy, and one to sell
WebhookPayloadData ==
  [action : {"buy"}, position_size : Sizes]
  \cup [action : {"sell"}, position_size : {1000}]

\* the bodies POSTed to /webhook for the strategy sid with the secret s
PayloadsWith(s, sid, equities, datas) ==
  [strategy_id : {sid}, signal_type : {"equity_update"},
   equity : {Some(e) : e \in equities},
   symbol : {None}, data : {Nil}, secret : {s}]
  \cup
  [strategy_id : {sid}, signal_type : {"reset"}, equity : {Nil},
   symbol : {None}, data : {Nil}, secret : {s}]
  \cup
  [strategy_id : {sid}, signal_type : {"entry_long"}, equity : {Nil},
   symbol : {"ETHUSDT"}, data : {Nil} \cup {Some(d) : d \in datas}, secret : {s}]
  \cup
  [strategy_id : {sid}, signal_type : {"exit_long"}, equity : {Nil},
   symbol : {"ETHUSDT"}, data : {Nil}, secret : {s}]

\* the equities and the entry of the second strategy
EquitiesS2 == {89, 100}

DataS2 == {[action |-> "buy", position_size |-> 1000]}

\* bodies that leave out a field the model declares optional (lines 25 and
\* 31-32): the equity of an equity_update, the symbol or the action of an
\* entry
PayloadsWithout(s, sid) ==
  [strategy_id : {sid}, signal_type : {"equity_update"}, equity : {Nil},
   symbol : {None}, data : {Nil}, secret : {s}]
  \cup
  [strategy_id : {sid}, signal_type : {"entry_long"}, equity : {Nil},
   symbol : {None}, data : {Some([action |-> "buy", position_size |-> 1000])},
   secret : {s}]
  \cup
  [strategy_id : {sid}, signal_type : {"entry_long"}, equity : {Nil},
   symbol : {"ETHUSDT"}, data : {Some([action |-> None, position_size |-> 1000])},
   secret : {s}]

\* the bodies POSTed to /webhook: every signal of S1 with the right secret,
\* fewer of S2, and one signal of every type with a wrong secret
WebhookPayload ==
  PayloadsWith(GoodSecret, "S1", Equities, WebhookPayloadData)
  \cup PayloadsWithout(GoodSecret, "S1")
  \cup PayloadsWith(GoodSecret, "S2", EquitiesS2, DataS2)
  \cup PayloadsWith("wrong", "S1", {100}, DataS2)

\* os.environ['BYBIT_API_KEY'] and str(int(time.time() * 1000))
BYBIT_API_KEY == "key"

Now == "1700000000000"

\* a request signed for the exchange: what httpx transmits (the method, the
\* query string of the URL, the body, the X-BAPI headers) and sign_str, the
\* parts concatenated into the string that is signed
Request(method, query, body, recv_window, signed) ==
  [method |-> method, query |-> query, body |-> body,
   headers |-> [key |-> BYBIT_API_KEY, timestamp |-> Now,
                recv_window |-> recv_window],
   sign_str |-> <<Now, BYBIT_API_KEY, recv_window>> \o signed]

\* no request is sent
NoRequest == Request("none", None, None, None, <<>>)

\* place_order (a101 lines 125-149, a203 lines 123-144): payload_str is
\* signed and sent as the body
place_order(order) ==
  LET payload_str ==
        IF program = "a101"
        THEN <<"linear", order.symbol, order.side, "Market", order.qty, "IOC">>
        ELSE <<"linear", order.symbol, order.side, "Market", order.qty>>
  IN  Request("POST", None, payload_str,
              IF program = "a101" THEN "50000" ELSE "5000", <<payload_str>>)

\* a suspended handler: the await it is in and the locals it reads afterwards
Frame(ep, pc, sid, dd, action, order) ==
  [ep |-> ep, pc |-> pc, sid |-> sid, dd |-> dd, action |-> action, order |-> order]

\* the record of a step: the request (or the frame resumed), the dicts as it
\* found them, the response it gave (NoResp when the handler is suspended),
\* the record it appended to the log file (NoLog when none), the call of
\* place_order it began and what the awaited call did (the balance, after
\* the wallet-balance query), the request of place_order when it began one
Step(ep, step, req, resp, log, order, outcome) ==
  [ep |-> ep, step |-> step, req |-> req, pre_max |-> max_equity,
   pre_status |-> strategy_status, pre_reported |-> reported,
   resp |-> resp, intended |-> resp, log |-> log, order |-> order,
   outcome |-> outcome,
   sent |-> IF order = NoOrder THEN NoRequest ELSE place_order(order)]

\* the step when its record is appended to the log file, and when the append
\* raises (a101 log_event, lines 77-92; a203 lines 339-357 and 397-416):
\* a101 answers 500, a203's except answers status "error"; the step is then
\* named log_failed, or log_failed_resumed after an await, and intended
\* keeps the answer of the step whose append succeeds
Appended(step) ==
  {step,
   [step EXCEPT !.step = IF step.step = "start" THEN "log_failed"
                         ELSE "log_failed_resumed",
                !.log = NoLog,
                !.resp = IF program = "a101" THEN Resp("500", "", Nil, Nil)
                         ELSE Resp("error", "", Nil, Nil)]}

Init ==
  /\ program \in {"a101", "a203"}
  /\ max_equity = <<>>
  /\ strategy_status = <<>>
  /\ inflight = EmptyBag
  /\ placed = {}
  /\ reported = <<>>
  /\ last = [ep |-> "init", step |-> "init", req |-> None,
             pre_max |-> <<>>, pre_status |-> <<>>, pre_reported |-> <<>>,
             resp |-> NoResp, intended |-> NoResp, log |-> NoLog,
             order |-> NoOrder, outcome |-> None, sent |-> NoRequest]

\* /webhook, lines 157-159: the secret is wrong
WebhookInvalidSecret(payload) ==
  /\ payload.secret # WEBHOOK_SECRET
  /\ last' \in Appended(Step("/webhook", "start", payload,
                              Resp("blocked", "invalid secret", Nil, Nil),
                              log_event(payload.strategy_id, "invalid_secret", Nil, Nil, None),
                              NoOrder, None))
  /\ UNCHANGED <<max_equity, strategy_status, inflight>>

\* /webhook, line 162: the signal has no equity, float(None) raises TypeError
\* and the server answers 500
WebhookEquityMissing(payload) ==
  /\ payload.secret = WEBHOOK_SECRET
  /\ payload.signal_type = "equity_update"
  /\ payload.equity = Nil
  /\ last' = Step("/webhook", "start", payload,
                  Resp("500", "", Nil, Nil),
                  NoLog, NoOrder, None)
  /\ UNCHANGED <<max_equity, strategy_status, inflight>>

\* a faulty new high: the peak is raised and the paused flag is left as it is
WebhookNewHighKeepsPause(payload) ==
  LET sid == payload.strategy_id
      eq  == payload.equity[1]
  IN  /\ payload.secret = WEBHOOK_SECRET
      /\ payload.signal_type = "equity_update"
      /\ payload.equity # Nil
      /\ eq > MaxEquityGet(max_equity, sid)
      /\ max_equity' = DictSet(max_equity, sid, eq)
      /\ last' \in Appended(Step("/webhook", "start", payload,
                                  Resp("ok", "", Some(0), Nil),
                                  log_event(sid, "equity_update", Some(eq), Some(0), None),
                                  NoOrder, None))
      /\ UNCHANGED <<strategy_status, inflight>>

\* /webhook, lines 161-168: an equity above the peak
WebhookNewHigh(payload) ==
  LET sid == payload.strategy_id
      eq  == payload.equity[1]
  IN  /\ payload.secret = WEBHOOK_SECRET
      /\ payload.signal_type = "equity_update"
      /\ payload.equity # Nil
      /\ eq > MaxEquityGet(max_equity, sid)
      /\ max_equity' = DictSet(max_equity, sid, eq)
      /\ strategy_status' = DictSet(strategy_status, sid, [paused |-> FALSE])
      /\ last' \in Appended(Step("/webhook", "start", payload,
                                  Resp("ok", "", Some(0), Nil),
                                  log_event(sid, "equity_update", Some(eq), Some(0), None),
                                  NoOrder, None))
      /\ UNCHANGED inflight

\* /webhook, lines 171-175: the drawdown reaches the threshold; the handler
\* is suspended in push_line_message
WebhookPausedByMdd(payload, dd) ==
  LET sid == payload.strategy_id
      eq  == payload.equity[1]
  IN  /\ dd.breach
      /\ BagCardinality(inflight) < MaxInflight
      /\ strategy_status' = DictSet(strategy_status, sid, [paused |-> TRUE])
      /\ last' \in Appended(Step("/webhook", "start", payload,
                                  NoResp,
                                  log_event(sid, "paused_by_mdd", Some(eq), Some(dd.rounded), None),
                                  NoOrder, None))
      /\ inflight' = IF last'.step = "log_failed" THEN inflight
                     ELSE inflight (+) SetToBag({
                            Frame("/webhook", "push_line_message", sid, dd.rounded,
                                  None, NoOrder)})
      /\ UNCHANGED max_equity

\* /webhook, lines 171 and 177-178: the drawdown is below the threshold
WebhookEquityOk(payload, dd) ==
  LET sid == payload.strategy_id
      eq  == payload.equity[1]
  IN  /\ ~dd.breach
      /\ last' \in Appended(Step("/webhook", "start", payload,
                                  Resp("ok", "", Some(dd.rounded), Nil),
                                  log_event(sid, "equity_update", Some(eq), Some(dd.rounded), None),
                                  NoOrder, None))
      /\ UNCHANGED <<max_equity, strategy_status, inflight>>

\* /webhook, lines 161-178: an equity that is not above the peak, and its
\* drawdown dd
WebhookBelowPeak(payload) ==
  LET eq     == payload.equity[1]
      max_eq == MaxEquityGet(max_equity, payload.strategy_id)
  IN  /\ payload.secret = WEBHOOK_SECRET
      /\ payload.signal_type = "equity_update"
      /\ payload.equity # Nil
      /\ ~(eq > max_eq)
      /\ LET HandleDrawdown(dd) ==
               \/ WebhookPausedByMdd(payload, dd)
               \/ WebhookEquityOk(payload, dd)
         IN  HandleDrawdown(DrawdownTable[<<eq, max_eq>>])

\* a faulty reset: the peak of the strategy is forgotten too
WebhookResetForgetsPeak(payload) ==
  LET sid == payload.strategy_id
  IN  /\ payload.secret = WEBHOOK_SECRET
      /\ payload.signal_type = "reset"
      /\ strategy_status' = DictSet(strategy_status, sid, [paused |-> FALSE])
      /\ max_equity' = [k \in DOMAIN max_equity \ {sid} |-> max_equity[k]]
      /\ last' \in Appended(Step("/webhook", "start", payload,
                                  Resp("reset", "", Nil, Nil),
                                  log_event(sid, "reset", Nil, Nil, None),
                                  NoOrder, None))
      /\ UNCHANGED inflight

\* /webhook, lines 180-183
WebhookReset(payload) ==
  LET sid == payload.strategy_id
  IN  /\ payload.secret = WEBHOOK_SECRET
      /\ payload.signal_type = "reset"
      /\ strategy_status' = DictSet(strategy_status, sid, [paused |-> FALSE])
      /\ last' \in Appended(Step("/webhook", "start", payload,
                                  Resp("reset", "", Nil, Nil),
                                  log_event(sid, "reset", Nil, Nil, None),
                                  NoOrder, None))
      /\ UNCHANGED <<max_equity, inflight>>

\* a faulty test of an order signal: the secret is not looked at
OrderIntentNoAuth(payload) == payload.signal_type \notin {"equity_update", "reset"}

\* a signal with the right secret that is neither equity_update nor reset
OrderIntent(payload) ==
  /\ payload.secret = WEBHOOK_SECRET
  /\ payload.signal_type \notin {"equity_update", "reset"}

\* /webhook, lines 185-187
WebhookBlocked(payload) ==
  LET sid == payload.strategy_id
  IN  /\ OrderIntent(payload)
      /\ PausedGet(strategy_status, sid)
      /\ last' \in Appended(Step("/webhook", "start", payload,
                                  Resp("blocked", "MDD stop active", Nil, Nil),
                                  log_event(sid, "blocked_send", Nil, Nil, None),
                                  NoOrder, None))
      /\ UNCHANGED <<max_equity, strategy_status, inflight>>

\* if payload.signal_type in ["entry_long", "entry_short"] and payload.data
IsEntry(payload) ==
  payload.signal_type \in {"entry_long", "entry_short"} /\ payload.data # Nil

\* if size == 0
SizeIsZero(size) == size = 0

\* /webhook, lines 195-197
WebhookSkipZero(payload) ==
  LET sid == payload.strategy_id
  IN  /\ OrderIntent(payload)
      /\ ~PausedGet(strategy_status, sid)
      /\ IsEntry(payload)
      /\ SizeIsZero(payload.data[1].position_size)
      /\ last' \in Appended(Step("/webhook", "start", payload,
                                  Resp("ok", "", Nil, Nil),
                                  log_event(sid, "skip_zero_order", Nil, Nil, None),
                                  NoOrder, None))
      /\ UNCHANGED <<max_equity, strategy_status, inflight>>

\* side = "Buy" if action == "buy" else "Sell"
SideOf(action) == IF action = "buy" THEN "Buy" ELSE "Sell"

\* the call place_order(symbol, side, qty), made for sid, and whether sid is
\* paused when it is made
Order(symbol, side, qty, sid) ==
  [symbol |-> symbol, side |-> side, qty |-> qty, sid |-> sid,
   paused |-> sid \in DOMAIN strategy_status /\ strategy_status[sid].paused]

\* /webhook, lines 199-200: place_order is called and the handler is
\* suspended in its POST
WebhookPlaceOrder(payload) ==
  LET sid   == payload.strategy_id
      data  == payload.data[1]
      order == Order(payload.symbol, SideOf(data.action), data.position_size, sid)
  IN  /\ OrderIntent(payload)
      /\ ~PausedGet(strategy_status, sid)
      /\ IsEntry(payload)
      /\ ~SizeIsZero(data.position_size)
      /\ BagCardinality(inflight) < MaxInflight
      /\ inflight' = inflight (+) SetToBag({
            Frame("/webhook", "place_order", sid, 0, data.action, order)})
      /\ last' = Step("/webhook", "start", payload, NoResp, NoLog, order, None)
      /\ UNCHANGED <<max_equity, strategy_status>>

\* /webhook, lines 204-205
WebhookUnrecognized(payload) ==
  LET sid == payload.strategy_id
  IN  /\ OrderIntent(payload)
      /\ ~PausedGet(strategy_status, sid)
      /\ ~IsEntry(payload)
      /\ last' \in Appended(Step("/webhook", "start", payload,
                                  Resp("ignored", "", Nil, Nil),
                                  log_event(sid, "unrecognized", Nil, Nil, None),
                                  NoOrder, None))
      /\ UNCHANGED <<max_equity, strategy_status, inflight>>

\* a faulty resumption: the paused flag is written after the await of
\* push_line_message
WebhookNotifiedWritesLate(f, outcome) ==
  /\ f.ep = "/webhook" /\ f.pc = "push_line_message"
  /\ inflight' = inflight (-) SetToBag({f})
  /\ strategy_status' = DictSet(strategy_status, f.sid, [paused |-> TRUE])
  /\ last' = Step("/webhook", "resume", f,
                  IF outcome = TransportError
                  THEN Resp("500", "", Nil, Nil)
                  ELSE Resp("paused", "MDD exceeded", Some(f.dd), Nil),
                  NoLog, NoOrder, outcome)
  /\ UNCHANGED max_equity

\* /webhook, lines 174-175: push_line_message returns, or raises and the
\* server answers 500
WebhookNotified(f, outcome) ==
  /\ f.ep = "/webhook" /\ f.pc = "push_line_message"
  /\ inflight' = inflight (-) SetToBag({f})
  /\ last' = Step("/webhook", "resume", f,
                  IF outcome = TransportError
                  THEN Resp("500", "", Nil, Nil)
                  ELSE Resp("paused", "MDD exceeded", Some(f.dd), Nil),
                  NoLog, NoOrder, outcome)
  /\ UNCHANGED <<max_equity, strategy_status>>

\* /webhook, lines 200-202, and place_order, lines 148-150: the POST
\* returns and its JSON is handed back, or it raises and the server answers
\* 500
WebhookOrderDone(f, outcome) ==
  /\ f.ep = "/webhook" /\ f.pc = "place_order"
  /\ inflight' = inflight (-) SetToBag({f})
  /\ IF outcome = TransportError
     THEN last' = Step("/webhook", "resume", f, Resp("500", "", Nil, Nil),
                       NoLog, NoOrder, outcome)
     ELSE last' \in Appended(Step("/webhook", "resume", f,
                                  Resp("success", "", Nil, RetCodeOf(outcome)),
                                  log_event(f.sid, "order_sent", Nil, Nil, f.action),
                                  NoOrder, outcome))
  /\ UNCHANGED <<max_equity, strategy_status>>

\* the forms POSTed to /manual_reset
ManualResetForm == [strategy_id : SIDs, secret : Secrets]

\* /manual_reset, lines 219-225
manual_reset(form) ==
  /\ IF form.secret # WEBHOOK_SECRET
     THEN /\ last' = Step("/manual_reset", "start", form,
                          Resp("403", "", Nil, Nil),
                          NoLog,
                          NoOrder, None)
          /\ UNCHANGED strategy_status
     ELSE /\ strategy_status' =
                DictSet(strategy_status, form.strategy_id, [paused |-> FALSE])
          /\ last' \in Appended(Step("/manual_reset", "start", form,
                                      Resp("200", "", Nil, Nil),
                                      log_event(form.strategy_id, "manual_reset", Nil, Nil, None),
                                      NoOrder, None))
  /\ UNCHANGED <<max_equity, inflight>>

\* /status, lines 208-216
get_status(strategy_id) ==
  [strategy_id |-> strategy_id,
   max_equity |-> MaxEquityGet(max_equity, strategy_id),
   paused |-> PausedGet(strategy_status, strategy_id)]

\* a faulty handler: it runs only when no other handler is suspended, as if
\* a lock were held across the awaits
webhook_handler_locked(payload) ==
  /\ inflight = EmptyBag
  /\ \/ WebhookInvalidSecret(payload)
     \/ WebhookEquityMissing(payload)
     \/ WebhookNewHigh(payload)
     \/ WebhookBelowPeak(payload)
     \/ WebhookReset(payload)
     \/ WebhookBlocked(payload)
     \/ WebhookSkipZero(payload)
     \/ WebhookPlaceOrder(payload)
     \/ WebhookUnrecognized(payload)

\* /webhook, lines 153-205, up to its first await or its return
webhook_handler(payload) ==
  \/ WebhookInvalidSecret(payload)
  \/ WebhookEquityMissing(payload)
  \/ WebhookNewHigh(payload)
  \/ WebhookBelowPeak(payload)
  \/ WebhookReset(payload)
  \/ WebhookBlocked(payload)
  \/ WebhookSkipZero(payload)
  \/ WebhookPlaceOrder(payload)
  \/ WebhookUnrecognized(payload)

\* the highest equity the equity_update signals with the right secret have
\* reported for each strategy id, after the step whose record is step
ReportedAfter(step) ==
  IF /\ step.ep = "/webhook"
     /\ step.req.secret = WEBHOOK_SECRET
     /\ step.req.signal_type = "equity_update"
     /\ step.req.equity # Nil
     /\ \/ step.req.strategy_id \notin DOMAIN reported
        \/ step.req.equity[1] > reported[step.req.strategy_id]
  THEN DictSet(reported, step.req.strategy_id, step.req.equity[1])
  ELSE reported

A101Request ==
  /\ program = "a101"
  /\ \/ \E payload \in WebhookPayload : webhook_handler(payload)
     \/ \E form \in ManualResetForm : manual_reset(form)
  /\ reported' = ReportedAfter(last')
  /\ UNCHANGED <<program, placed>>

A101Resume ==
  /\ program = "a101"
  /\ \E f \in BagToSet(inflight) :
       \/ \E outcome \in {Accepted, TransportError} : WebhookNotified(f, outcome)
       \/ \E outcome \in ExchangeOutcomes : WebhookOrderDone(f, outcome)
  /\ UNCHANGED <<program, placed, reported>>

(***************************************************************************)
(* bybit_a203_ethusdt.py                                                   *)
(***************************************************************************)
TV_WEBHOOK_SECRET == "letmein"

EQUITY_FALLBACK == 100

\* the least quantity sent, 0.01, in hundredths of a contract
MIN_QTY == 1

\* an order id is typed as its words, which "_" joins
OrderIds ==
  {<<"entry", "long">>, <<"entry", "short">>, <<"tp1", "long">>, <<"tp1", "short">>}

\* the string of an order id
RECURSIVE JoinId(_)
JoinId(words) ==
  IF Len(words) = 1 THEN words[1]
  ELSE words[1] \o "_" \o JoinId(Tail(words))

\* order_id.startswith("entry_")
StartsWithEntry(words) == Len(words) > 1 /\ words[1] = "entry"

\* "long" in order_id
ContainsLong(words) == \E i \in 1..Len(words) : words[i] = "long"

\* "_short" in order_id
ContainsUnderscoreShort(words) == \E i \in 2..Len(words) : words[i] = "short"

\* infer_action_from_order_id, lines 164-193: the label of the first prefix
\* of the table that the order id starts with, named here by that prefix
ActionPrefixes ==
  <<<<"entry", "long">>, <<"entry", "short">>, <<"tp1", "long">>,
    <<"tp1", "short">>, <<"trail", "long">>, <<"trail", "short">>,
    <<"stop", "loss", "long">>, <<"stop", "loss", "short">>,
    <<"breakeven", "long">>, <<"breakeven", "short">>,
    <<"residual", "close", "long">>, <<"residual", "close", "short">>,
    <<"close", "long", "for", "short">>, <<"close", "short", "for", "long">>>>

infer_action_from_order_id(words) ==
  LET hits == {i \in 1..Len(ActionPrefixes) :
                 /\ Len(ActionPrefixes[i]) <= Len(words)
                 /\ SubSeq(words, 1, Len(ActionPrefixes[i])) = ActionPrefixes[i]}
  IN  IF hits = {} THEN "unknown"
      ELSE JoinId(ActionPrefixes[CHOOSE i \in hits : \A j \in hits : i <= j])

\* if symbol.endswith(".P"): symbol = symbol[:-2]
StripP(symbol) == IF symbol = "ETHUSDT.P" THEN "ETHUSDT" ELSE symbol

Prices == {0, 1500, 2000, 4000}

Percents == {0, 10}

\* the contracts of an exit signal, in thousandths of a contract
Contracts == {0, 5, 1000}

\* the bodies POSTed to /tv_webhook and /tv_webhook_test with the secret s:
\* price and capital_percent vary on the entries, contracts on the others
TvPayloadsWith(s, ids, prices, percents, contracts) ==
  [secret : {s}, strategy_id : {"S1"}, order_id : {w \in ids : StartsWithEntry(w)},
   symbol : {"ETHUSDT.P"}, price : prices, capital_percent : percents,
   contracts : {0}]
  \cup
  [secret : {s}, strategy_id : {"S1"}, order_id : {w \in ids : ~StartsWithEntry(w)},
   symbol : {"ETHUSDT"}, price : {2000}, capital_percent : {0},
   contracts : contracts]

\* the order id of a reversal: the long position is closed to go short
ReverseIds == {<<"close", "long", "for", "short">>}

\* the ids whose signals take every price, percent and contracts
LongIds == {<<"entry", "long">>, <<"tp1", "long">>}

\* the bodies POSTed to /tv_webhook: every signal of the long ids, one entry
\* and one exit of the others, and an entry and an exit with a wrong secret
TvPayload ==
  TvPayloadsWith(TV_WEBHOOK_SECRET, LongIds, Prices, Percents, Contracts)
  \cup TvPayloadsWith(TV_WEBHOOK_SECRET, OrderIds \ LongIds, {2000}, {10}, {1000})
  \cup TvPayloadsWith(TV_WEBHOOK_SECRET, ReverseIds, {2000}, {0}, {1000})
  \cup TvPayloadsWith("wrong", LongIds, {2000}, {10}, {1000})

\* what the wallet-balance query gives: the balance of the account, or
\* nothing (the request fails, or the answer has no usable balance)
Balances == {Some(1000), Nil}

\* a faulty fallback: a balance that is missing counts as 0
EquityOfNothing(balance) == IF balance = Nil THEN 0 ELSE balance[1]

\* lines 292-304
EquityOf(balance) == IF balance = Nil THEN EQUITY_FALLBACK ELSE balance[1]

\* qty = round((equity * capital_percent / 100) / price, 2), in hundredths
Qty(equity, capital_percent, price) ==
  Round2(FDiv(FDiv(FMul(FromInt(equity), FromInt(capital_percent)), FromInt(100)),
              FromInt(price)))

\* the quantities of the entries of the model, computed once
QtyTable ==
  [x \in {EquityOf(b) : b \in Balances} \X (Percents \ {0}) \X (Prices \ {0}) |->
     Qty(x[1], x[2], x[3])] @@ <<>>

\* a suspended handler of a203: the await it is in, the request, and the
\* locals it reads afterwards
TvFrame(ep, pc, req, equity, qty, order_result) ==
  [ep |-> ep, pc |-> pc, req |-> req, equity |-> equity, qty |-> qty,
   order_result |-> order_result]

OrderResult(retCode, retMsg) == [retCode |-> retCode, retMsg |-> retMsg]

\* the JSON body the exchange answers an order with
ExchangeResult(outcome) ==
  OrderResult(RetCodeOf(outcome), IF outcome = Accepted THEN "OK" ELSE "error")

\* /tv_webhook, lines 248-251: the secret is wrong
TvUnauthorized(ep, payload) ==
  /\ payload.secret # TV_WEBHOOK_SECRET
  /\ last' = Step(ep, "start", payload, Resp("unauthorized", "", Nil, Nil),
                  NoLog, NoOrder, None)
  /\ UNCHANGED <<inflight, placed>>

\* /tv_webhook, lines 253-288: the fields are read and the handler is
\* suspended in the wallet-balance query
TvQueryBalance(payload) ==
  /\ payload.secret = TV_WEBHOOK_SECRET
  /\ BagCardinality(inflight) < MaxInflight
  /\ inflight' = inflight (+) SetToBag({
        TvFrame("/tv_webhook", "balance", payload, 0, 0, OrderResult(Nil, None))})
  /\ last' = [Step("/tv_webhook", "start", payload, NoResp, NoLog, NoOrder, None)
                EXCEPT !.sent = Request("GET", "accountType=UNIFIED", None, "5000",
                                        <<"accountType=UNIFIED">>)]
  /\ UNCHANGED placed

\* /tv_webhook, lines 334-371: the record appended to log.json and the answer
TvFinish(f, equity, qty, order_result, outcome) ==
  /\ inflight' = inflight (-) SetToBag({f})
  /\ last' \in Appended(Step("/tv_webhook", "resume", f, Resp("ok", "", Nil, Nil),
                              LogRecord(f.req.strategy_id, JoinId(f.req.order_id),
                                        Some(equity), Nil,
                                        infer_action_from_order_id(f.req.order_id),
                                        order_result.retCode, order_result.retMsg, Some(qty)),
                              NoOrder, outcome))
  /\ UNCHANGED placed

\* /tv_webhook, lines 372-374: an exception reaches the handler's except
TvError(ep, f, outcome) ==
  /\ inflight' = inflight (-) SetToBag({f})
  /\ last' = Step(ep, "resume", f, Resp("error", "", Nil, Nil),
                  NoLog, NoOrder, outcome)
  /\ UNCHANGED placed

\* /tv_webhook: place_order is called and the handler is suspended in its
\* POST
TvPlaceOrder(f, pc, equity, qty, order_result, order, outcome) ==
  /\ inflight' = (inflight (-) SetToBag({f})) (+) SetToBag({
        TvFrame("/tv_webhook", pc, f.req, equity, qty, order_result)})
  /\ placed' = placed \cup {JoinId(f.req.order_id)}
  /\ last' = Step("/tv_webhook", "resume", f, NoResp, NoLog, order, outcome)

\* /tv_webhook, lines 310-329: with the quantity qty of an entry (0 when
\* the signal is not sized), the entry is sent, or the exit is, or nothing
TvSend(f, balance, qty) ==
  LET req      == f.req
      symbol   == StripP(req.symbol)
      equity   == EquityOf(balance)
      is_entry == StartsWithEntry(req.order_id)
      sized    == is_entry /\ req.price > 0 /\ req.capital_percent > 0
      skipped  == IF sized THEN OrderResult(Nil, "qty too small")
                  ELSE IF is_entry THEN OrderResult(Nil, "invalid price/cap_percent")
                  ELSE OrderResult(Nil, "not entry")
  IN  IF sized /\ qty >= MIN_QTY
      THEN TvPlaceOrder(f, "entry_order", equity, qty, skipped,
             Order(symbol, IF ContainsLong(req.order_id) THEN "Buy" ELSE "Sell",
                   qty * 10, req.strategy_id), balance)
      ELSE IF ~is_entry /\ req.contracts > 0
      THEN TvPlaceOrder(f, "exit_order", equity, qty, skipped,
             Order(symbol,
                   IF ContainsUnderscoreShort(req.order_id) THEN "Buy" ELSE "Sell",
                   req.contracts, req.strategy_id), balance)
      ELSE TvFinish(f, equity, qty, skipped, balance)

\* /tv_webhook, lines 289-329: the balance is back; an entry with a price
\* and a percent above 0 is sized
TvBalanceDone(f, balance) ==
  /\ f.ep = "/tv_webhook" /\ f.pc = "balance"
  /\ TvSend(f, balance,
            IF /\ StartsWithEntry(f.req.order_id)
               /\ f.req.price > 0 /\ f.req.capital_percent > 0
            THEN QtyTable[<<EquityOf(balance), f.req.capital_percent, f.req.price>>]
            ELSE 0)

\* a faulty answer to an entry order: an order the exchange did not accept
\* is sent again
TvEntryDoneRetries(f, outcome) ==
  /\ f.ep = "/tv_webhook" /\ f.pc = "entry_order"
  /\ IF outcome = TransportError THEN TvError("/tv_webhook", f, outcome)
     ELSE IF outcome = Accepted
     THEN TvFinish(f, f.equity, f.qty, ExchangeResult(outcome), outcome)
     ELSE TvPlaceOrder(f, "entry_order", f.equity, f.qty, f.order_result,
            Order(StripP(f.req.symbol),
                  IF ContainsLong(f.req.order_id) THEN "Buy" ELSE "Sell",
                  f.qty * 10, f.req.strategy_id), outcome)

\* /tv_webhook, lines 314 and 334-371: the entry order is answered
TvEntryDone(f, outcome) ==
  /\ f.ep = "/tv_webhook" /\ f.pc = "entry_order"
  /\ IF outcome = TransportError THEN TvError("/tv_webhook", f, outcome)
     ELSE TvFinish(f, f.equity, f.qty, ExchangeResult(outcome), outcome)

\* /tv_webhook, lines 329-371: the exit order is answered; ret_code and
\* ret_msg are taken from order_result again
TvExitDone(f, outcome) ==
  /\ f.ep = "/tv_webhook" /\ f.pc = "exit_order"
  /\ IF outcome = TransportError THEN TvError("/tv_webhook", f, outcome)
     ELSE TvFinish(f, f.equity, f.qty, f.order_result, outcome)

\* /equity_status, lines 217-237: the wallet-balance query is signed without
\* its query string, and the handler is suspended in it
EquityStatusQuery ==
  /\ BagCardinality(inflight) < MaxInflight
  /\ inflight' = inflight (+) SetToBag({
        TvFrame("/equity_status", "equity", None, 0, 0, OrderResult(Nil, None))})
  /\ last' = [Step("/equity_status", "start", None, NoResp, NoLog, NoOrder, None)
                EXCEPT !.sent = Request("GET", "accountType=UNIFIED", None, "5000",
                                        <<>>)]
  /\ UNCHANGED placed

\* /equity_status, lines 238-244: the equity of the answer is returned, or
\* the fallback when the query raised or the answer has no equity
EquityStatusDone(f, balance) ==
  /\ f.ep = "/equity_status" /\ f.pc = "equity"
  /\ inflight' = inflight (-) SetToBag({f})
  /\ last' = Step("/equity_status", "resume", f,
                  Resp(IF balance = Nil THEN "fallback" ELSE "ok", "",
                       Some(EquityOf(balance)), Nil),
                  NoLog, NoOrder, balance)
  /\ UNCHANGED placed

\* /tv_webhook, lines 246-374, up to its first await or its return
tv_webhook(payload) ==
  \/ TvUnauthorized("/tv_webhook", payload)
  \/ TvQueryBalance(payload)

\* /tv_webhook_test, lines 378-394: place_order(symbol, action, 0.01) is
\* called and the handler is suspended in its POST
TvTestPlaceOrder(payload) ==
  LET action == IF ContainsLong(payload.order_id) THEN "Buy" ELSE "Sell"
      order  == Order(payload.symbol, action, MIN_QTY * 10, payload.strategy_id)
  IN  /\ payload.secret = TV_WEBHOOK_SECRET
      /\ BagCardinality(inflight) < MaxInflight
      /\ inflight' = inflight (+) SetToBag({
            TvFrame("/tv_webhook_test", "test_order", payload, 0, MIN_QTY,
                    OrderResult(Nil, None))})
      /\ placed' = placed \cup {JoinId(payload.order_id)}
      /\ last' = Step("/tv_webhook_test", "start", payload, NoResp, NoLog, order, None)

\* /tv_webhook_test, lines 394-433: the order is answered
TvTestDone(f, outcome) ==
  /\ f.ep = "/tv_webhook_test" /\ f.pc = "test_order"
  /\ IF outcome = TransportError THEN TvError("/tv_webhook_test", f, outcome)
     ELSE /\ inflight' = inflight (-) SetToBag({f})
          /\ last' \in Appended(Step("/tv_webhook_test", "resume", f, Resp("ok", "", Nil, Nil),
                                      LogRecord(f.req.strategy_id, JoinId(f.req.order_id) \o "_test",
                                                Nil, Nil,
                                                IF ContainsLong(f.req.order_id) THEN "Buy" ELSE "Sell",
                                                Nil, None, Some(MIN_QTY)),
                                      NoOrder, outcome))
          /\ UNCHANGED placed

\* /tv_webhook_test, lines 376-433, up to its await or its return
tv_webhook_test(payload) ==
  \/ TvUnauthorized("/tv_webhook_test", payload)
  \/ TvTestPlaceOrder(payload)

\* the bodies POSTed to /tv_webhook_test
TvTestPayload ==
  TvPayloadsWith(TV_WEBHOOK_SECRET, LongIds, {2000}, {10}, {1000})
  \cup TvPayloadsWith("wrong", LongIds, {2000}, {10}, {1000})

A203Request ==
  /\ program = "a203"
  /\ \/ \E payload \in TvPayload : tv_webhook(payload)
     \/ \E payload \in TvTestPayload : tv_webhook_test(payload)
     \/ EquityStatusQuery
  /\ UNCHANGED <<program, max_equity, strategy_status, reported>>

A203Resume ==
  /\ program = "a203"
  /\ \E f \in BagToSet(inflight) :
       \/ \E balance \in Balances : TvBalanceDone(f, balance)
       \/ \E balance \in Balances : EquityStatusDone(f, balance)
       \/ \E outcome \in ExchangeOutcomes : TvEntryDone(f, outcome)
       \/ \E outcome \in ExchangeOutcomes : TvExitDone(f, outcome)
       \/ \E outcome \in ExchangeOutcomes : TvTestDone(f, outcome)
  /\ UNCHANGED <<program, max_equity, strategy_status, reported>>

Next == A101Request \/ A101Resume \/ A203Request \/ A203Resume

Spec == Init /\ [][Next]_vars

(***************************************************************************)
(* The properties.  Each is about the step last taken: `last` holds what   *)
(* the step read, the other variables hold what it left.                   *)
(***************************************************************************)

\* C1: in a101's /webhook, an order signal (neither equity_update nor reset)
\* with the right secret, handled while its strategy is paused, is answered
\* status "blocked", reason "MDD stop active", and begins no place_order; and
\* no call of place_order begins for a strategy that is paused at that moment.
C1_PausedBlocksOrders ==
  program = "a101" =>
    /\ ( /\ last.ep = "/webhook" /\ last.step = "start"
         /\ last.req.secret = GoodSecret
         /\ last.req.signal_type \notin {"equity_update", "reset"}
         /\ last.req.strategy_id \in DOMAIN last.pre_status
         /\ last.pre_status[last.req.strategy_id].paused )
       => /\ last.resp = Resp("blocked", "MDD stop active", Nil, Nil)
          /\ last.order = NoOrder
    /\ last.order # NoOrder => ~last.order.paused

\* C1 happens: an entry with a size to send arrives for a paused strategy and
\* is blocked
C1_Witness ==
  /\ program = "a101"
  /\ last.ep = "/webhook" /\ last.step = "start"
  /\ last.req.secret = GoodSecret
  /\ last.req.signal_type = "entry_long"
  /\ last.req.data = Some([action |-> "buy", position_size |-> 1000])
  /\ last.req.strategy_id \in DOMAIN last.pre_status
  /\ last.pre_status[last.req.strategy_id].paused
  /\ last.resp.reason = "MDD stop active"

\* C2: for an equity_update with the right secret, equity <= peak and
\* peak > 0, the drawdown reported is (peak - equity) / peak * 100 (to the two
\* places the response carries), and the strategy is paused by the update
\* exactly when (peak - equity) / peak * 100 >= MAX_DRAWDOWN_PERCENT; below
\* the threshold the flags are left as they were; with a peak of 0 the
\* drawdown is 0 and nothing is paused.
C2_PausedExactlyAtThreshold ==
  ( /\ program = "a101"
    /\ last.ep = "/webhook" /\ last.step = "start"
    /\ last.req.secret = GoodSecret
    /\ last.req.signal_type = "equity_update"
    /\ last.req.equity # Nil
    /\ last.req.equity[1] <= MaxEquityGet(last.pre_max, last.req.strategy_id) )
  => LET sid    == last.req.strategy_id
         eq     == last.req.equity[1]
         peak   == MaxEquityGet(last.pre_max, sid)
         breach == peak > 0 /\ (peak - eq) * 100 >= MAX_DRAWDOWN_PERCENT * peak
         dd     == last.log.drawdown[1]
     IN  /\ peak > 0 => 2 * dd * peak - 20000 * (peak - eq) \in -peak..peak
         /\ peak = 0 => dd = 0
         /\ breach => /\ sid \in DOMAIN strategy_status
                      /\ strategy_status[sid].paused
                      /\ last.log.event = "paused_by_mdd"
         /\ ~breach => /\ strategy_status = last.pre_status
                       /\ last.resp = Resp("ok", "", Some(dd), Nil)

\* C3: a paused strategy stays paused through every step, but a reset or a
\* manual_reset of it with the right secret, or an equity_update of it with
\* the right secret and an equity above its peak.
C3_PausedUntilResetOrNewHigh ==
  program = "a101" =>
    \A sid \in DOMAIN last.pre_status :
      ( /\ last.pre_status[sid].paused
        /\ ~(sid \in DOMAIN strategy_status /\ strategy_status[sid].paused) )
      => /\ last.step \in {"start", "log_failed"}
         /\ last.req.secret = GoodSecret
         /\ last.req.strategy_id = sid
         /\ \/ last.ep = "/manual_reset"
            \/ /\ last.ep = "/webhook"
               /\ \/ last.req.signal_type = "reset"
                  \/ /\ last.req.signal_type = "equity_update"
                     /\ last.req.equity[1] > MaxEquityGet(last.pre_max, sid)

\* C3 happens: while S1 is paused, a signal of S2 with the right secret
\* makes S2 paused too, and S1 is still paused
C3_Witness ==
  /\ program = "a101"
  /\ last.ep = "/webhook" /\ last.step = "start"
  /\ last.req.strategy_id = "S2"
  /\ last.log.event = "paused_by_mdd"
  /\ "S1" \in DOMAIN last.pre_status /\ last.pre_status["S1"].paused
  /\ strategy_status["S1"].paused

\* C4: an equity_update with the right secret and an equity above the peak
\* of its strategy makes that equity the peak, leaves the strategy not paused
\* and is answered status "ok", drawdown 0, paused before or not.
C4_NewHighSetsPeakAndActive ==
  ( /\ program = "a101"
    /\ last.ep = "/webhook" /\ last.step = "start"
    /\ last.req.secret = GoodSecret
    /\ last.req.signal_type = "equity_update"
    /\ last.req.equity # Nil
    /\ last.req.equity[1] > MaxEquityGet(last.pre_max, last.req.strategy_id) )
  => LET sid == last.req.strategy_id
     IN  /\ sid \in DOMAIN max_equity /\ max_equity[sid] = last.req.equity[1]
         /\ sid \in DOMAIN strategy_status /\ ~strategy_status[sid].paused
         /\ last.resp = Resp("ok", "", Some(0), Nil)

\* C4 happens: a paused strategy with a peak of 90 reports an equity of 100
C4_Witness ==
  /\ program = "a101"
  /\ last.ep = "/webhook" /\ last.step = "start"
  /\ last.req.secret = GoodSecret
  /\ last.req.signal_type = "equity_update"
  /\ last.req.equity = Some(100)
  /\ last.req.strategy_id \in DOMAIN last.pre_status
  /\ last.pre_status[last.req.strategy_id].paused
  /\ MaxEquityGet(last.pre_max, last.req.strategy_id) = 90
  /\ max_equity[last.req.strategy_id] = 100

\* C5: a reset (the signal "reset" on /webhook, or /manual_reset) with the
\* right secret leaves its strategy not paused and changes nothing else: the
\* peaks are as they were, and so is the flag of every other strategy.
C5_ResetOnlyClearsPause ==
  ( /\ program = "a101"
    /\ last.step = "start"
    /\ last.ep \in {"/webhook", "/manual_reset"}
    /\ last.req.secret = GoodSecret
    /\ last.ep = "/webhook" => last.req.signal_type = "reset" )
  => LET sid == last.req.strategy_id
     IN  /\ sid \in DOMAIN strategy_status /\ ~strategy_status[sid].paused
         /\ max_equity = last.pre_max
         /\ DOMAIN strategy_status = DOMAIN last.pre_status \cup {sid}
         /\ \A other \in DOMAIN last.pre_status \ {sid} :
              strategy_status[other] = last.pre_status[other]

\* C5 happens: S1 is paused below its peak and is reset, while S2 is paused
C5_Witness ==
  /\ program = "a101"
  /\ last.step = "start" /\ last.ep = "/manual_reset"
  /\ last.req.secret = GoodSecret
  /\ last.req.strategy_id = "S1"
  /\ "S1" \in DOMAIN last.pre_status /\ last.pre_status["S1"].paused
  /\ "S2" \in DOMAIN last.pre_status /\ last.pre_status["S2"].paused
  /\ MaxEquityGet(max_equity, "S1") = 100
  /\ ~strategy_status["S1"].paused

\* C6: on /webhook and /manual_reset of a101 and on /tv_webhook and
\* /tv_webhook_test of a203, a request with a secret other than the
\* configured one is turned down at once: no place_order begins and no peak
\* and no paused flag changes.
C6_WrongSecretRejected ==
  ( /\ last.step = "start"
    /\ last.ep \in {"/webhook", "/manual_reset", "/tv_webhook", "/tv_webhook_test"}
    /\ last.req.secret # (IF program = "a101" THEN GoodSecret ELSE "letmein") )
  => /\ last.order = NoOrder
     /\ last.resp.status \in {"blocked", "403", "unauthorized"}
     /\ max_equity = last.pre_max
     /\ strategy_status = last.pre_status

\* C6 happens: an entry with a wrong secret arrives at /webhook for a
\* strategy that has a peak and is not paused
C6_Witness ==
  /\ program = "a101"
  /\ last.step = "start" /\ last.ep = "/webhook"
  /\ last.req.secret = "wrong"
  /\ last.req.signal_type = "entry_long"
  /\ last.req.strategy_id \in DOMAIN max_equity
  /\ ~strategy_status[last.req.strategy_id].paused
  /\ last.resp.reason = "invalid secret"

\* C7: signals are handled once per order id: of two order signals with the
\* right secret and the same order_id, the second begins no place_order, so
\* that every call of place_order of a203 is for an order id that none was
\* made for before.
C7_OneOrderPerOrderId ==
  [][(program = "a203" /\ last'.order # NoOrder) => placed' # placed]_vars

\* C8: when the order a handler placed fails (the exchange answers a retCode
\* other than 0 or a status other than 2xx, or the transport fails), the
\* handler does not answer status "success" or "ok".
C8_FailedOrderIsNotSuccess ==
  ( /\ last.step = "resume"
    /\ last.req.pc \in {"place_order", "entry_order", "exit_order", "test_order"}
    /\ last.outcome # Accepted )
  => last.resp.status \notin {"success", "ok"}

\* C9: every call of place_order carries a quantity of at least 0.01 (10
\* thousandths): a size, a sized quantity or an exit's contracts that is
\* zero, negative or below 0.01 is skipped.
C9_NoOrderBelowMinimum ==
  last.order # NoOrder => last.order.qty >= 10 * MIN_QTY

\* C10: for an entry on /tv_webhook with price > 0 and capital_percent > 0,
\* the quantity is round(equity * capital_percent / 100 / price, 2), the
\* hundredth nearest to the exact quotient (0.05 for 1000, 10 and 2000);
\* place_order is called with that quantity when it is >= 0.01, and
\* otherwise no order is sent and "qty too small" is recorded.
C10_EntryQuantity ==
  ( /\ program = "a203"
    /\ last.ep = "/tv_webhook" /\ last.step = "resume"
    /\ last.req.pc = "balance"
    /\ StartsWithEntry(last.req.req.order_id)
    /\ last.req.req.price > 0 /\ last.req.req.capital_percent > 0 )
  => LET req    == last.req.req
         equity == IF last.outcome = Nil THEN EQUITY_FALLBACK ELSE last.outcome[1]
         Sent(qty) ==
           /\ 2 * (qty * req.price - equity * req.capital_percent)
                \in -req.price..req.price
           /\ <<equity, req.capital_percent, req.price>> = <<1000, 10, 2000>> => qty = 5
           /\ qty >= 1 => /\ last.order # NoOrder
                          /\ last.order.qty = 10 * qty
                          /\ last.order.symbol = "ETHUSDT"
                          /\ last.resp = NoResp
           /\ qty < 1 => /\ last.order = NoOrder
                         /\ last.log.ret_msg = "qty too small"
                         /\ last.log.ret_code = Nil
                         /\ last.log.qty = Some(qty)
     IN  Sent(QtyTable[<<equity, req.capital_percent, req.price>>])

\* C10 happens: an entry at 1500 with 10 percent of a balance of 1000 is sent
\* with a quantity of 0.07
C10_Witness ==
  /\ program = "a203"
  /\ last.ep = "/tv_webhook" /\ last.step = "resume"
  /\ last.req.pc = "balance"
  /\ last.req.req.order_id = <<"entry", "long">>
  /\ last.req.req.price = 1500 /\ last.req.req.capital_percent = 10
  /\ last.outcome = Some(1000)
  /\ last.order.qty = 70 /\ last.order.side = "Buy"

\* C11: an equity_update with the right secret whose equity is above every
\* equity reported for its strategy before (each update of a strictly
\* increasing sequence) leaves the strategy not paused and is answered
\* status "ok", drawdown 0.
C11_RisingEquityNeverPauses ==
  ( /\ program = "a101"
    /\ last.ep = "/webhook" /\ last.step = "start"
    /\ last.req.secret = GoodSecret
    /\ last.req.signal_type = "equity_update"
    /\ last.req.equity # Nil
    /\ \/ last.req.strategy_id \notin DOMAIN last.pre_reported
       \/ last.req.equity[1] > last.pre_reported[last.req.strategy_id] )
  => /\ ~( /\ last.req.strategy_id \in DOMAIN strategy_status
           /\ strategy_status[last.req.strategy_id].paused )
     /\ last.resp = Resp("ok", "", Some(0), Nil)

\* C11 happens: S1, not paused, reports 90 after 89
C11_Witness ==
  /\ program = "a101"
  /\ last.ep = "/webhook" /\ last.step = "start"
  /\ last.req.secret = GoodSecret
  /\ last.req.signal_type = "equity_update"
  /\ last.req.strategy_id = "S1"
  /\ last.req.equity = Some(90)
  /\ "S1" \in DOMAIN last.pre_reported /\ last.pre_reported["S1"] = 89
  /\ "S1" \notin DOMAIN last.pre_status \/ ~last.pre_status["S1"].paused
  /\ max_equity["S1"] = 90

\* C12: the first equity_update with the right secret of a strategy without
\* a record, whatever its equity e (zero and negative values too), is
\* answered drawdown 0, and /status then reports max_equity = e and
\* paused = false.
C12_FirstUpdateCreatesRecord ==
  ( /\ program = "a101"
    /\ last.ep = "/webhook" /\ last.step = "start"
    /\ last.req.secret = GoodSecret
    /\ last.req.signal_type = "equity_update"
    /\ last.req.equity # Nil
    /\ last.req.strategy_id \notin DOMAIN last.pre_max
    /\ last.req.strategy_id \notin DOMAIN last.pre_status )
  => /\ last.resp = Resp("ok", "", Some(0), Nil)
     /\ get_status(last.req.strategy_id) =
          [strategy_id |-> last.req.strategy_id,
           max_equity |-> last.req.equity[1], paused |-> FALSE]

\* C14: for every strategy the stored peak never decreases from a step to
\* the next, is never removed, and is the highest equity the equity_update
\* signals with the right secret have reported for it so far.
C14_PeakIsHighestReported ==
  program = "a101" =>
    \A sid \in SIDs :
      /\ sid \in DOMAIN last.pre_max
           => sid \in DOMAIN max_equity /\ max_equity[sid] >= last.pre_max[sid]
      /\ sid \in DOMAIN reported
           => sid \in DOMAIN max_equity /\ max_equity[sid] = reported[sid]
      /\ sid \in DOMAIN max_equity => sid \in DOMAIN reported

C15_PausedOnlyByBreach ==
  program = "a101" =>
    \A sid \in DOMAIN strategy_status :
      strategy_status[sid].paused =>
        /\ sid \in DOMAIN max_equity /\ max_equity[sid] > 0
        /\ ~(sid \in DOMAIN last.pre_status /\ last.pre_status[sid].paused)
             => /\ last.ep = "/webhook"
                /\ last.step \in {"start", "log_failed"}
                /\ last.req.secret = GoodSecret
                /\ last.req.signal_type = "equity_update"
                /\ last.req.strategy_id = sid
                /\ sid \in DOMAIN last.pre_max /\ last.pre_max[sid] > 0
                /\ (last.pre_max[sid] - last.req.equity[1]) * 100
                     >= MAX_DRAWDOWN_PERCENT * last.pre_max[sid]

\* C15 happens: S1, not paused, with a peak of 100, reports 89 and is paused
C15_Witness ==
  /\ program = "a101"
  /\ last.ep = "/webhook" /\ last.step = "start"
  /\ last.req.strategy_id = "S1" /\ last.req.equity = Some(89)
  /\ "S1" \in DOMAIN last.pre_status /\ ~last.pre_status["S1"].paused
  /\ last.pre_max["S1"] = 100
  /\ strategy_status["S1"].paused

\* C16: a signal with the right secret that lacks the equity of an
\* equity_update, or the symbol or the action of an entry, is answered with a
\* validation error (422), changes neither the peaks nor the paused flags
\* and begins no order.
C16_MissingFieldRejected ==
  ( /\ program = "a101"
    /\ last.ep = "/webhook" /\ last.step = "start"
    /\ last.req.secret = GoodSecret
    /\ \/ last.req.signal_type = "equity_update" /\ last.req.equity = Nil
       \/ /\ last.req.signal_type \in {"entry_long", "entry_short"}
          /\ last.req.data # Nil
          /\ last.req.symbol = None \/ last.req.data[1].action = None )
  => /\ last.resp.status = "422"
     /\ max_equity = last.pre_max /\ strategy_status = last.pre_status
     /\ last.order = NoOrder

\* C17: when push_line_message fails after an MDD pause, the failure is
\* swallowed: the caller is answered status "paused" with the drawdown, and
\* the paused flags are left as the notification found them.
C17_NotificationFailureSwallowed ==
  ( /\ program = "a101"
    /\ last.ep = "/webhook" /\ last.step = "resume"
    /\ last.req.pc = "push_line_message"
    /\ last.outcome = TransportError )
  => /\ last.resp = Resp("paused", "MDD exceeded", Some(last.req.dd), Nil)
     /\ strategy_status = last.pre_status

\* C18: a step whose append to the log file fails gives the caller the
\* answer it gives when the append succeeds, after an order has been placed
\* too.
C18_LogFailureInvisible ==
  last.step \in {"log_failed", "log_failed_resumed"} => last.resp = last.intended

\* C19: every handler that has answered (wrong secret, equity update,
\* pause, reset, blocked, skipped, order sent, unrecognised, error) has
\* appended one record to the log: in the step that answers, or, for an MDD
\* pause, before the notification it was suspended in.
C19_OneRecordPerSignal ==
  (last.step # "init" /\ last.resp # NoResp)
  => \/ last.log # NoLog
     \/ /\ program = "a101" /\ last.step = "resume"
        /\ last.req.pc = "push_line_message"

\* C20: in every request signed for the exchange, the string signed is
\* timestamp + api key + recv window + payload, the payload being the body
\* transmitted (POST) or the query string transmitted (GET), and the
\* X-BAPI headers carry that timestamp, api key and recv window.
C20_SignedWhatIsSent ==
  last.sent.method # "none"
  => last.sent.sign_str =
       <<last.sent.headers.timestamp, last.sent.headers.key,
         last.sent.headers.recv_window,
         IF last.sent.method = "POST" THEN last.sent.body ELSE last.sent.query>>

\* C21: a handler begins an order only before it has awaited one (at its
\* start, or when the balance query of /tv_webhook is answered), and the
\* step that resumes it after the POST of place_order, accepted, rejected or
\* failed, begins no other order and answers the caller: one signal, at most
\* one place_order, one POST.
C21_OneOrderPerSignal ==
  /\ last.order # NoOrder
       => \/ last.step = "start"
          \/ last.step = "resume" /\ last.req.pc = "balance"
  /\ ( /\ last.step \in {"resume", "log_failed_resumed"}
       /\ last.req.pc \in {"place_order", "entry_order", "exit_order", "test_order"} )
       => /\ last.order = NoOrder /\ last.sent = NoRequest
          /\ last.resp # NoResp

\* C21 happens: the exchange rejects the entry order of /tv_webhook, and the
\* handler answers without another order
C21_Witness ==
  /\ program = "a203"
  /\ last.ep = "/tv_webhook" /\ last.step = "resume"
  /\ last.req.pc = "entry_order"
  /\ last.outcome = Rejected
  /\ last.order = NoOrder /\ last.resp.status = "ok"

\* C22: an order begun by /webhook has side Buy and action "buy", or side
\* Sell and action "sell": a signal whose action is missing or is neither
\* begins no order.
C22_SideFollowsAction ==
  ( /\ program = "a101"
    /\ last.ep = "/webhook" /\ last.step = "start"
    /\ last.order # NoOrder )
  => \/ last.req.data[1].action = "buy" /\ last.order.side = "Buy"
     \/ last.req.data[1].action = "sell" /\ last.order.side = "Sell"

C24_StatusAgreesWithPause ==
  ( /\ program = "a101"
    /\ last.ep = "/webhook" /\ last.step = "start"
    /\ last.req.secret = GoodSecret
    /\ last.req.signal_type = "equity_update"
    /\ last.req.equity # Nil )
  => ( last.resp.status = "ok"
         <=> ~PausedGet(strategy_status, last.req.strategy_id) )

\* C25: the closing order /tv_webhook begins for an exit signal with
\* contracts > 0 is on the side opposite to the position its order id names
\* first (tp1_long, close_long_for_short: the long position): Sell to close
\* a long position, Buy to close a short one.
C25_ExitSideClosesPosition ==
  ( /\ program = "a203"
    /\ last.ep = "/tv_webhook" /\ last.step = "resume"
    /\ last.req.pc = "balance"
    /\ ~StartsWithEntry(last.req.req.order_id)
    /\ last.order # NoOrder )
  => LET words  == last.req.req.order_id
         named  == {i \in 1..Len(words) : words[i] \in {"long", "short"}}
         closed == words[CHOOSE i \in named : \A j \in named : i <= j]
     IN  last.order.side = IF closed = "long" THEN "Sell" ELSE "Buy"

\* C26: the record /tv_webhook appends for a signal whose order (entry or
\* exit) the exchange answered carries the retCode and the retMsg of that
\* answer.
C26_RecordCarriesOrderResult ==
  ( /\ program = "a203"
    /\ last.ep = "/tv_webhook" /\ last.step = "resume"
    /\ last.req.pc \in {"entry_order", "exit_order"}
    /\ last.log # NoLog )
  => /\ last.log.ret_code = ExchangeResult(last.outcome).retCode
     /\ last.log.ret_msg = ExchangeResult(last.outcome).retMsg

\* C27: when the wallet-balance query of /tv_webhook fails, the handler
\* goes on with equity = EQUITY_FALLBACK: it answers "ok" with a record of
\* that equity, or begins the order, an entry sized from the fallback, and
\* once the exchange has answered the order it answers "ok" with a record
\* of that equity.
C27_BalanceFailureFallsBack ==
  /\ ( /\ program = "a203"
       /\ last.ep = "/tv_webhook" /\ last.step = "resume"
       /\ last.req.pc = "balance"
       /\ last.outcome = Nil )
     => LET req   == last.req.req
            sized == /\ StartsWithEntry(req.order_id)
                     /\ req.price > 0 /\ req.capital_percent > 0
        IN  \/ /\ last.resp = Resp("ok", "", Nil, Nil)
               /\ last.log.equity = Some(EQUITY_FALLBACK)
               /\ last.order = NoOrder
            \/ /\ last.resp = NoResp
               /\ last.order # NoOrder
               /\ sized => last.order.qty =
                    10 * QtyTable[<<EQUITY_FALLBACK, req.capital_percent, req.price>>]
               /\ \E f \in BagToSet(inflight) :
                    /\ f.ep = "/tv_webhook"
                    /\ f.req = req /\ f.equity = EQUITY_FALLBACK
  /\ ( /\ program = "a203"
       /\ last.ep = "/tv_webhook" /\ last.step = "resume"
       /\ last.req.pc \in {"entry_order", "exit_order"}
       /\ last.req.equity = EQUITY_FALLBACK
       /\ last.outcome # TransportError )
     => /\ last.resp = Resp("ok", "", Nil, Nil)
        /\ last.log.equity = Some(EQUITY_FALLBACK)

\* C27 happens: the balance query fails for an entry at 1500 with 10 %, and
\* 0.01 is ordered, 10 % of the fallback 100 at that price
C27_Witness ==
  /\ program = "a203"
  /\ last.ep = "/tv_webhook" /\ last.step = "resume"
  /\ last.req.pc = "balance"
  /\ last.outcome = Nil
  /\ last.req.req.order_id = <<"entry", "long">>
  /\ last.req.req.price = 1500 /\ last.req.req.capital_percent = 10
  /\ last.order.qty = 10 /\ last.order.side = "Buy"

\* C28: the quantity of an entry order of /tv_webhook is at most the exact
\* allotment equity * capital_percent / 100 / price: quantity * price is at
\* most capital_percent percent of the equity (the quantity is in
\* thousandths here), so that an allotment below 0.01 begins no order.
C28_QuantityWithinAllotment ==
  ( /\ program = "a203"
    /\ last.ep = "/tv_webhook" /\ last.step = "resume"
    /\ last.req.pc = "balance"
    /\ StartsWithEntry(last.req.req.order_id)
    /\ last.order # NoOrder )
  => last.order.qty * last.req.req.price * 100
       <= 1000 * EquityOf(last.outcome) * last.req.req.capital_percent

====
